---- MODULE Spec2Model ----
(***************************************************************************)
(* Model of src/crawlermixin.py: the paginated crawl of CrawlerMixin.      *)
(*                                                                         *)
(* crawl() runs as one asyncio coroutine; the code between two awaits is   *)
(* atomic.  The awaits are the listing GET (_download_videos_page), the    *)
(* gather of the detail tasks (_find_more_videos_metadata), the detail GET *)
(* of each task (_fetch_video_page_and_find_metadata) and the sleeps of    *)
(* the two tenacity @retry wrappers.  Each action below is the code that   *)
(* runs when one of these awaits completes.                                *)
(*                                                                         *)
(* Strings are sequences of one-character strings, so that strip(),        *)
(* parameterize() and humanize() are computed and not assumed.             *)
(***************************************************************************)
EXTENDS Integers, Sequences, FiniteSets, TLC

VARIABLES
    site,       \* the remote site: [n |-> pages of the chain, back |-> link of the last
                \* page, mode |-> how it behaves]
    pc,         \* where crawl() is: "fetch", "enrich", "wait", "done", "failed", "exited"
    url,        \* the listing page crawl()/_download() is on
    attempt,    \* tenacity's attempt number of the current _download step
    reqs,       \* listing GETs issued in the current step
    waits,      \* tenacity sleeps taken in the current step
    kind,       \* what made the attempts of the current step fail so far
    status,     \* how the listing GET of the current attempt was answered, if it was
    stepBase,   \* the number of Video rows when the current step began
    gaveUp,     \* a detail task has exhausted its retries, so a gather has raised
    clean,      \* every fetch so far succeeded and every listing page had items
    tree,       \* the parsed listing page _download holds
    videoTbl,   \* rows of Video
    tagTbl,     \* rows of Tag
    vtTbl,      \* rows of VideoTag
    created,    \* self.created_videos_on_crawl
    tasks,      \* the detail tasks that exist: [video, att, res, live]; live tasks are
                \* those of the gather _download awaits, the others were left running
                \* by a gather that raised
    fetchLog,   \* the first MaxLog listing GETs, in order
    notified,   \* the videos passed to tumblr.post, in order
    gets        \* per Video row, the detail GETs issued for it in the current step by
                \* the tasks of _download's gathers, counted up to MaxAttempts + 1

vars == <<site, pc, url, attempt, reqs, waits, kind, status, stepBase, gaveUp, clean, tree,
          videoTbl, tagTbl, vtTbl, created, tasks, fetchLog, notified, gets>>

(***************************************************************************)
(* Bounds and program constants                                            *)
(***************************************************************************)
MaxAttempts == 20
MaxPages == 2
MaxItems == 2
MaxLog == MaxPages + 1

Range(s) == {s[i] : i \in 1..Len(s)}
Min(S) == CHOOSE x \in S : \A y \in S : x <= y

(***************************************************************************)
(* Strings                                                                 *)
(***************************************************************************)
IsSpace(c) == c = " "

RECURSIVE LStrip(_)
LStrip(s) == IF s # <<>> /\ IsSpace(Head(s)) THEN LStrip(Tail(s)) ELSE s

RECURSIVE RStrip(_)
RStrip(s) == IF s # <<>> /\ IsSpace(s[Len(s)]) THEN RStrip(SubSeq(s, 1, Len(s) - 1)) ELSE s

strip(s) == RStrip(LStrip(s))

Lower(c) == IF c = "A" THEN "a" ELSE IF c = "B" THEN "b" ELSE c
Upper(c) == IF c = "a" THEN "A" ELSE IF c = "b" THEN "B"
            ELSE IF c = "i" THEN "I" ELSE IF c = "d" THEN "D" ELSE c
IsSlugChar(c) == c \in {"a", "b", "i", "d", "A", "B", "-", "_"}
IsWordChar(c) == c \in {"a", "b", "i", "d", "A", "B", "_"}

\* re.sub(r"(?i)[^a-z0-9\-_]+", "-", s) followed by re.sub(r"-{2,}", "-", s)
RECURSIVE Dasherize(_)
Dasherize(s) ==
    IF s = <<>> THEN <<>>
    ELSE LET c == IF IsSlugChar(Head(s)) THEN Head(s) ELSE "-"
             r == Dasherize(Tail(s))
         IN IF c = "-" /\ r # <<>> /\ Head(r) = "-" THEN r ELSE <<c>> \o r

\* re.sub(r"(?i)^-|-$", "", s)
TrimDash(s) ==
    LET l == IF s # <<>> /\ Head(s) = "-" THEN Tail(s) ELSE s
    IN IF l # <<>> /\ l[Len(l)] = "-" THEN SubSeq(l, 1, Len(l) - 1) ELSE l

parameterize(s) == LET t == TrimDash(Dasherize(s)) IN [i \in 1..Len(t) |-> Lower(t[i])]

humanize(w) ==
    LET n == Len(w)
        a == IF n >= 3 /\ SubSeq(w, n - 2, n) = <<"_", "i", "d">>
             THEN SubSeq(w, 1, n - 3) ELSE w
        b == [i \in 1..Len(a) |-> IF a[i] = "_" THEN " " ELSE Lower(a[i])]
    IN IF b # <<>> /\ IsWordChar(b[1]) THEN <<Upper(b[1])>> \o Tail(b) ELSE b

(***************************************************************************)
(* The remote site                                                         *)
(***************************************************************************)
Pages == 1..MaxPages

\* Page p links to p + 1; the last page links to site.back (0: no prev-page link,
\* 1..n: a link back into the chain).
\* The site behaves in one of four ways during a crawl:
\*   "varied"         a finite chain; any listing of Listings but the empty one; no
\*                    GET fails, but any may answer 404
\*   "listing_down"   a chain that may link back into itself; the listing is ListingAC;
\*                    a listing GET may fail at any attempt
\*   "listing_empty"  a finite chain; the listing is ListingAC or empty
\*   "detail_down"    a finite chain; the listing is ListingAC or ListingCB; the
\*                    detail GET of DownUrl may fail at any attempt, for the tasks of
\*                    the gather _download awaits until one of them has given up;
\*                    from then on a listing GET may fail
\*   "no_converter"   a finite chain; the listing is ListingAC; the crawler class
\*                    does not override crawl_convert_video_duration_to_seconds
\*   "ragged"         a finite chain; a listing of two videos or more, on which the
\*                    selector of site.cut misses the last video
Arrays == {"titles", "urls", "thumbs", "durs"}

Sites ==
    {[n |-> n, back |-> 0, mode |-> m, cut |-> "none"] :
        n \in Pages, m \in {"varied", "listing_empty", "detail_down", "no_converter"}}
    \cup {[n |-> x[1], back |-> x[2], mode |-> "listing_down", cut |-> "none"] :
              x \in {y \in Pages \X (0..MaxPages) : y[2] <= y[1]}}
    \cup {[n |-> n, back |-> 0, mode |-> "ragged", cut |-> c] : n \in Pages, c \in Arrays}

PrevOf(s, p) == IF p < s.n THEN p + 1 ELSE s.back

\* What the selectors find on a listing page: one raw (title, url, thumbnail, duration)
\* per video.  MetaB has the url of MetaA (up to whitespace) under another title.
MetaA == [title |-> <<" ", "a">>, url |-> <<"/", "a">>, thumb |-> <<"t">>, dur |-> <<1, 30>>]
MetaB == [title |-> <<"b">>, url |-> <<"/", "a", " ">>, thumb |-> <<"t">>, dur |-> <<1, 30>>]
MetaC == [title |-> <<"a">>, url |-> <<"/", "b">>, thumb |-> <<"t">>, dur |-> <<0, 45>>]

ListingAC == <<MetaA, MetaC>>
ListingB == <<MetaB>>
ListingCB == <<MetaC, MetaB>>

\* The listings a page of the site may show, of up to MaxItems videos.
Feed ==
    {<<>>, <<MetaA>>, <<MetaC>>, ListingB, ListingAC, ListingCB, <<MetaC, MetaC>>,
     <<MetaA, MetaB, MetaC>>, <<MetaC, MetaA, MetaA>>}
Listings == {l \in Feed : Len(l) <= MaxItems}

Served(s) ==
    IF s.mode = "varied" THEN Listings \ {<<>>}
    ELSE IF s.mode = "listing_down" THEN {ListingAC}
    ELSE IF s.mode = "listing_empty" THEN {<<>>, ListingAC}
    ELSE IF s.mode = "no_converter" THEN {ListingAC}
    ELSE IF s.mode = "ragged" THEN {l \in Listings : Len(l) >= 2}
    ELSE {ListingAC, ListingCB}

\* Whether the site lets a listing GET, or a detail GET, fail.
MayFailListing(s, given) ==
    s.mode = "listing_down" \/ (s.mode = "detail_down" /\ given)

DownUrl == <<"/", "a">>

MayFailDetail(s, u, live, given) ==
    s.mode = "detail_down" /\ u = DownUrl /\ (live => ~given)

\* The four parallel arrays of a listing, the prev-page link (0: none), and which
\* crawl_convert_video_duration_to_seconds the crawler that parses it has.
TreeOf(l, prev) ==
    [titles |-> [i \in 1..Len(l) |-> l[i].title],
     urls   |-> [i \in 1..Len(l) |-> l[i].url],
     thumbs |-> [i \in 1..Len(l) |-> l[i].thumb],
     durs   |-> [i \in 1..Len(l) |-> l[i].dur],
     prev   |-> prev,
     conv   |-> "site"]

\* What the selector of array c finds when it misses the last video of the page.
Cut(t, c) ==
    IF c = "titles" THEN [t EXCEPT !.titles = SubSeq(@, 1, Len(@) - 1)]
    ELSE IF c = "urls" THEN [t EXCEPT !.urls = SubSeq(@, 1, Len(@) - 1)]
    ELSE IF c = "thumbs" THEN [t EXCEPT !.thumbs = SubSeq(@, 1, Len(@) - 1)]
    ELSE IF c = "durs" THEN [t EXCEPT !.durs = SubSeq(@, 1, Len(@) - 1)]
    ELSE t

\* Listing l as page p of site s.
PageOf(s, l, p) ==
    [Cut(TreeOf(l, PrevOf(s, p)), s.cut) EXCEPT
        !.conv = IF s.mode = "no_converter" THEN "default" ELSE "site"]

NoTree == TreeOf(<<>>, 0)

\* The raw tags the selector finds on the detail page of a video url.
DetailTags(u) ==
    IF u = <<"/", "a">>
    THEN << <<"!">>, <<" ", "A", " ", "b">>, <<"a", "-", "b">> >>
    ELSE << <<"a", "-", "B">>, <<"b", "_", "i", "d">> >>

(***************************************************************************)
(* The store (peewee models Video, Tag, VideoTag)                          *)
(***************************************************************************)
SiteId == 1

\* get_or_create without its lookup: every call inserts.
get_or_create_always(tbl, row) ==
    [tbl |-> Append(tbl, row), id |-> Len(tbl) + 1, created |-> TRUE]

\* Model.get_or_create(**kwargs): the first row equal to kwargs on every field
\* given, else a new row.  A row's id is its index in the table.
get_or_create(tbl, row) ==
    IF \E i \in 1..Len(tbl) : tbl[i] = row
    THEN [tbl |-> tbl, id |-> Min({i \in 1..Len(tbl) : tbl[i] = row}), created |-> FALSE]
    ELSE [tbl |-> Append(tbl, row), id |-> Len(tbl) + 1, created |-> TRUE]

\* The site's duration converter (mm:ss to seconds).
crawl_convert_video_duration_to_seconds(d) == 60 * d[1] + d[2]

\* What a call of an async def returns: a coroutine object, which is no number.
Coroutine == -1

\* CrawlerMixin.crawl_convert_video_duration_to_seconds is an async def: map() calls
\* it without awaiting it, so its body (raise NotImplementedError) does not run.
DefaultConvert(d) == Coroutine

\* self.crawl_convert_video_duration_to_seconds, as map() calls it
Convert(conv, d) ==
    IF conv = "default" THEN DefaultConvert(d) ELSE crawl_convert_video_duration_to_seconds(d)

\* zip that goes on to the end of titles, with nothing where an array is short.
zip_by_titles(t) ==
    [i \in 1..Len(t.titles) |->
        <<t.titles[i],
          IF i <= Len(t.urls) THEN t.urls[i] ELSE <<>>,
          IF i <= Len(t.thumbs) THEN t.thumbs[i] ELSE <<>>,
          IF i <= Len(t.durs) THEN Convert(t.conv, t.durs[i]) ELSE 0>>]

\* zip(titles, urls, thumbnail_urls, durations)
_fetch_videos_page_and_find_metadata(t) ==
    LET n == Min({Len(t.titles), Len(t.urls), Len(t.thumbs), Len(t.durs)})
    IN [i \in 1..n |-> <<t.titles[i], t.urls[i], t.thumbs[i], Convert(t.conv, t.durs[i])>>]

\* Video.duration holds integer seconds: a query with another value raises.
Storable(ms) == \A i \in 1..Len(ms) : ms[i][4] # Coroutine

\* The keyword arguments of Video.get_or_create for one metadata tuple.
VideoRow(m) ==
    [title |-> strip(m[1]), url |-> strip(m[2]), thumbnail_url |-> strip(m[3]),
     duration |-> m[4], site |-> SiteId]

\* The loop of _get_or_create_videos_from_metadata from tuple k on: the table,
\* the videos list and created_videos_on_crawl.
RECURSIVE GetOrCreateFrom(_, _, _, _, _)
GetOrCreateFrom(ms, k, tbl, vids, crt) ==
    IF k > Len(ms) THEN [tbl |-> tbl, videos |-> vids, created |-> crt]
    ELSE LET r == get_or_create(tbl, VideoRow(ms[k]))
         IN GetOrCreateFrom(ms, k + 1, r.tbl, Append(vids, r.id),
                            IF r.created THEN Append(crt, r.id) ELSE crt)

\* The loop without "if created:": every video of the page counts as created.
RECURSIVE MarkAllFrom(_, _, _, _, _)
MarkAllFrom(ms, k, tbl, vids, crt) ==
    IF k > Len(ms) THEN [tbl |-> tbl, videos |-> vids, created |-> crt]
    ELSE LET r == get_or_create(tbl, VideoRow(ms[k]))
         IN MarkAllFrom(ms, k + 1, r.tbl, Append(vids, r.id), Append(crt, r.id))

get_or_create_marking_all(ms, tbl, crt) == MarkAllFrom(ms, 1, tbl, <<>>, crt)

_get_or_create_videos_from_metadata(ms, tbl, crt) == GetOrCreateFrom(ms, 1, tbl, <<>>, crt)

\* The loop body with the Tag looked up by the text found, not by humanize(slug).
SaveTagByText(st, video, found_tag) ==
    LET slug == parameterize(strip(found_tag))
    IN IF slug = <<>> THEN st
       ELSE LET t == get_or_create(st.tags, [tag |-> strip(found_tag), slug |-> slug])
                v == get_or_create(st.vts, [video |-> video, tag |-> t.id])
            IN [tags |-> t.tbl, vts |-> v.tbl]

\* The loop body without "if not slug: continue".
SaveTagNoSkip(st, video, found_tag) ==
    LET slug == parameterize(strip(found_tag))
        tag  == humanize(slug)
        t    == get_or_create(st.tags, [tag |-> tag, slug |-> slug])
        v    == get_or_create(st.vts, [video |-> video, tag |-> t.id])
    IN [tags |-> t.tbl, vts |-> v.tbl]

\* One iteration of the loop of save_video_details.
SaveTag(st, video, found_tag) ==
    LET slug == parameterize(strip(found_tag))
        tag  == humanize(slug)
    IN IF slug = <<>> THEN st
       ELSE LET t == get_or_create(st.tags, [tag |-> tag, slug |-> slug])
                v == get_or_create(st.vts, [video |-> video, tag |-> t.id])
            IN [tags |-> t.tbl, vts |-> v.tbl]

RECURSIVE SaveFrom(_, _, _, _)
SaveFrom(st, video, found, k) ==
    IF k > Len(found) THEN st ELSE SaveFrom(SaveTag(st, video, found[k]), video, found, k + 1)

\* save_video_details returning before its loop.
save_nothing(st, video, details) == st

save_video_details(st, video, details) == SaveFrom(st, video, details, 1)

(***************************************************************************)
(* The retry wrappers and the driver                                       *)
(***************************************************************************)
\* A stop condition that lets one more attempt through.
stop_one_late(att) == att >= MaxAttempts + 1

\* stop=stop_after_attempt(20)
stop_after_attempt(att) == att >= MaxAttempts

\* crawl() has neither returned nor raised.
Active == pc \in {"fetch", "enrich", "wait"}

LogFetch(log, p) == IF Len(log) < MaxLog THEN Append(log, p) ELSE log

Remove(s, j) == SubSeq(s, 1, j - 1) \o SubSeq(s, j + 1, Len(s))

Live(ts) == SelectSeq(ts, LAMBDA t : t.live)
Left(ts) == SelectSeq(ts, LAMBDA t : ~t.live)

\* The tasks _find_more_videos_metadata hands to asyncio.gather: one per entry of
\* videos, each started with its first detail GET.
_find_more_videos_metadata(videos) ==
    [i \in 1..Len(videos) |-> [video |-> videos[i], att |-> 1, res |-> "run", live |-> TRUE]]

\* session.get(url) of a detail task: one more GET for each entry of videos, in a
\* table of n rows.
CountGets(g, n, videos) ==
    [v \in 1..n |->
        Min({MaxAttempts + 1,
             (IF v <= Len(g) THEN g[v] ELSE 0)
                + Cardinality({k \in 1..Len(videos) : videos[k] = v})})]

\* asyncio.gather(*tasks) returns once no task of it is running.
GatherDone(ts) == \A i \in 1..Len(ts) : ts[i].live => ts[i].res # "run"

\* asyncio.gather(*tasks) raises when task i raises: the tasks that go on running.
GatherRaises(ts, i) ==
    LET rest == Remove(ts, i)
    IN SelectSeq([k \in 1..Len(rest) |-> [rest[k] EXCEPT !.live = FALSE]],
                 LAMBDA t : t.res = "run")

\* _download without its check for an empty page.
NoVideosIgnored(videos) == FALSE

\* if not videos: raise ValueError('No videos found')
NoVideosFound(videos) == videos = <<>>

\* should_continue_download cleared whatever the page links to.
ShouldContinueNever(t) == FALSE

\* A crawl that also stops at a link back to the entry page.
ShouldContinueUnlessEntry(t) == t.prev > 1

\* find_prev_page raises IndexError when the selector matches nothing.
ShouldContinue(t) == t.prev # 0

\* url = self.site_url + prev_page, unless find_prev_page raised
NextUrl(u, t) == IF ShouldContinue(t) THEN t.prev ELSE u

\* A listing 404 raised as an ordinary error, which the retry wrapper retries.
OnListing404Raise(att) == IF att >= MaxAttempts THEN "failed" ELSE "wait"

\* if response.status == 404: exit(1), which raises SystemExit through the retry
\* wrapper and crawl().
OnListing404(att) == "exited"

\* for video in self.created_videos_on_crawl: tumblr.post(video)
Notify(done, crt) == done \o crt

\* A crawl() that posts what the step created when the step gives up.
StepFailsAndPosts(cause) ==
    /\ kind' = IF kind \in {"none", cause} THEN cause ELSE "mixed"
    /\ IF stop_after_attempt(attempt)
       THEN pc' = "failed" /\ waits' = waits /\ notified' = Notify(notified, created)
       ELSE pc' = "wait" /\ waits' = waits + 1 /\ notified' = notified
    /\ tree' = NoTree
    /\ UNCHANGED <<url, attempt, reqs, stepBase, fetchLog>>

\* An attempt of _download raised: tenacity sleeps and retries, or gives up.
StepFails(cause) ==
    /\ kind' = IF kind \in {"none", cause} THEN cause ELSE "mixed"
    /\ IF stop_after_attempt(attempt)
       THEN pc' = "failed" /\ waits' = waits
       ELSE pc' = "wait" /\ waits' = waits + 1
    /\ tree' = NoTree
    /\ UNCHANGED <<url, attempt, reqs, stepBase, fetchLog, notified>>

Init ==
    /\ site \in Sites
    /\ pc = "fetch"
    /\ url = 1
    /\ attempt = 1
    /\ reqs = 1
    /\ waits = 0
    /\ kind = "none"
    /\ status = "none"
    /\ stepBase = 0
    /\ gaveUp = FALSE
    /\ clean = TRUE
    /\ tree = NoTree
    /\ videoTbl = <<>>
    /\ tagTbl = <<>>
    /\ vtTbl = <<>>
    /\ created = <<>>
    /\ tasks = <<>>
    /\ fetchLog = <<1>>
    /\ notified = <<>>
    /\ gets = <<>>

\* The listing GET answers 200 with listing l: _download runs up to the gather.
ListingOk(l) ==
    /\ pc = "fetch"
    /\ l \in Served(site)
    /\ LET t  == PageOf(site, l, url)
           ms == _fetch_videos_page_and_find_metadata(t)
           r  == IF Storable(ms)
                 THEN _get_or_create_videos_from_metadata(ms, videoTbl, created)
                 ELSE [tbl |-> videoTbl, videos |-> <<>>, created |-> created]
       IN /\ videoTbl' = r.tbl
          /\ created' = r.created
          /\ status' = IF ~Storable(ms) THEN "noconv" ELSE IF l = <<>> THEN "empty" ELSE "ok"
          /\ clean' = (clean /\ l # <<>> /\ Storable(ms))
          /\ gets' = CountGets(gets, Len(r.tbl), r.videos)
          /\ IF ~Storable(ms)
             THEN /\ StepFails("config")
                  /\ UNCHANGED tasks
             ELSE IF NoVideosFound(r.videos)
             THEN /\ StepFails("empty")
                  /\ UNCHANGED tasks
             ELSE /\ pc' = "enrich"
                  /\ tree' = t
                  /\ tasks' = tasks \o _find_more_videos_metadata(r.videos)
                  /\ UNCHANGED <<url, attempt, reqs, waits, kind, stepBase, fetchLog,
                                 notified>>
    /\ UNCHANGED <<site, gaveUp, tagTbl, vtTbl>>

\* The listing GET answers 404: exit(1).
ListingNotFound ==
    /\ pc = "fetch"
    /\ status' = "404"
    /\ clean' = FALSE
    /\ IF OnListing404(attempt) = "exited"
       THEN /\ pc' = "exited"
            /\ UNCHANGED <<url, attempt, reqs, waits, kind, stepBase, tree, fetchLog,
                           notified>>
       ELSE StepFails("transient")
    /\ UNCHANGED <<site, gaveUp, videoTbl, tagTbl, vtTbl, created, tasks, gets>>

\* The listing GET fails (timeout, reset, unparsable body).
ListingTransient ==
    /\ pc = "fetch"
    /\ MayFailListing(site, gaveUp)
    /\ status' = "error"
    /\ clean' = FALSE
    /\ StepFails("transient")
    /\ UNCHANGED <<site, gaveUp, videoTbl, tagTbl, vtTbl, created, tasks, gets>>

\* The sleep of _download's retry wrapper ends: the next attempt issues its GET.
Wake ==
    /\ pc = "wait"
    /\ pc' = "fetch"
    /\ attempt' = attempt + 1
    /\ reqs' = reqs + 1
    /\ status' = "none"
    /\ fetchLog' = LogFetch(fetchLog, url)
    /\ UNCHANGED <<site, url, waits, kind, stepBase, gaveUp, clean, tree, videoTbl, tagTbl, vtTbl,
                   created, tasks, notified, gets>>

\* A task that ended: it stays in its gather until the gather returns; nobody
\* holds a task whose gather has raised.
Ended(ts, i, res) == IF ts[i].live THEN [ts EXCEPT ![i].res = res] ELSE Remove(ts, i)

\* The detail GET of task i answers 200: the tags are saved.
DetailOk(i) ==
    /\ Active
    /\ tasks[i].res = "run"
    /\ LET v  == tasks[i].video
           st == save_video_details([tags |-> tagTbl, vts |-> vtTbl], v,
                                    DetailTags(videoTbl[v].url))
       IN /\ tagTbl' = st.tags
          /\ vtTbl' = st.vts
    /\ tasks' = Ended(tasks, i, "ok")
    /\ UNCHANGED <<site, pc, url, attempt, reqs, waits, kind, status, stepBase, gaveUp, clean,
                   tree, videoTbl, created, fetchLog, notified, gets>>

\* The detail GET of task i answers 404: the task returns.
DetailNotFound(i) ==
    /\ Active
    /\ tasks[i].res = "run"
    /\ tasks' = Ended(tasks, i, "skip")
    /\ clean' = FALSE
    /\ UNCHANGED <<site, pc, url, attempt, reqs, waits, kind, status, stepBase, gaveUp, tree,
                   videoTbl, tagTbl, vtTbl, created, fetchLog, notified, gets>>

\* The detail GET of task i fails: its retry wrapper issues the GET again, or gives
\* up; when the task is one of the gather _download awaits, the gather then raises
\* into _download.
DetailTransient(i) ==
    /\ Active
    /\ tasks[i].res = "run"
    /\ MayFailDetail(site, videoTbl[tasks[i].video].url, tasks[i].live, gaveUp)
    /\ clean' = FALSE
    /\ IF ~stop_after_attempt(tasks[i].att)
       THEN /\ tasks' = [tasks EXCEPT ![i].att = @ + 1]
            /\ gets' = IF tasks[i].live THEN CountGets(gets, Len(gets), <<tasks[i].video>>)
                       ELSE gets
            /\ UNCHANGED <<pc, url, attempt, reqs, waits, kind, stepBase, gaveUp, tree,
                           fetchLog, notified>>
       ELSE IF tasks[i].live
       THEN /\ tasks' = GatherRaises(tasks, i)
            /\ gaveUp' = TRUE
            /\ StepFails("enrich")
            /\ UNCHANGED gets
       ELSE /\ tasks' = Remove(tasks, i)
            /\ UNCHANGED <<gets, pc, url, attempt, reqs, waits, kind, stepBase, gaveUp, tree,
                           fetchLog, notified>>
    /\ UNCHANGED <<site, status, videoTbl, tagTbl, vtTbl, created>>

\* The gather returns: _download looks for the prev-page link and returns, crawl()
\* posts the created videos and either starts the next step or ends.
Join ==
    /\ pc = "enrich"
    /\ GatherDone(tasks)
    /\ notified' = Notify(notified, created)
    /\ tasks' = Left(tasks)
    /\ IF ~ShouldContinue(tree)
       THEN /\ pc' = "done"
            /\ UNCHANGED <<url, attempt, reqs, waits, kind, status, stepBase, tree, created,
                           fetchLog, gets>>
       ELSE /\ pc' = "fetch"
            /\ url' = NextUrl(url, tree)
            /\ attempt' = 1
            /\ reqs' = 1
            /\ waits' = 0
            /\ kind' = "none"
            /\ status' = "none"
            /\ stepBase' = Len(videoTbl)
            /\ tree' = NoTree
            /\ created' = <<>>
            /\ fetchLog' = LogFetch(fetchLog, NextUrl(url, tree))
            /\ gets' = [v \in 1..Len(videoTbl) |-> 0]
    /\ UNCHANGED <<site, gaveUp, clean, videoTbl, tagTbl, vtTbl>>

Next ==
    \/ \E l \in Listings : ListingOk(l)
    \/ ListingNotFound
    \/ ListingTransient
    \/ Wake
    \/ \E i \in 1..Len(tasks) : DetailOk(i)
    \/ \E i \in 1..Len(tasks) : DetailNotFound(i)
    \/ \E i \in 1..Len(tasks) : DetailTransient(i)
    \/ Join

Spec == Init /\ [][Next]_vars

(***************************************************************************)
(* Properties                                                              *)
(***************************************************************************)
Iota(n) == [i \in 1..n |-> i]

UrlOf(v) == videoTbl[v].url
TagsOf(v) == {vtTbl[r].tag : r \in {q \in 1..Len(vtTbl) : vtTbl[q].video = v}}
Running(i) == tasks[i].res = "run"

\* C1: on a finite chain of n non-empty listing pages where every fetch succeeds,
\* crawl() fetches pages 1..n in chain order, each once, and then is done: while
\* every fetch has succeeded it is awaiting an answer or done, never retrying,
\* failed or exited, the listing GETs so far are exactly those of pages 1..url,
\* one for each, and it is done only on page n.
C1_FiniteChainFetchesEachPageOnce ==
    (clean /\ site.back = 0) =>
        /\ pc \in {"fetch", "enrich", "done"}
        /\ attempt = 1 /\ reqs = 1
        /\ url \in 1..site.n
        /\ fetchLog = Iota(url)
        /\ (pc = "done" => url = site.n)

\* crawl() is done on a chain of MaxPages pages after MaxPages listing GETs.
C1_Witness ==
    /\ pc = "done" /\ clean /\ site.back = 0
    /\ site.n = MaxPages /\ Len(fetchLog) = MaxPages

\* C2: the Video table holds at most one row per (site, url).
C2_OneRecordPerSiteAndUrl ==
    \A i, j \in 1..Len(videoTbl) :
        (videoTbl[i].site = videoTbl[j].site /\ videoTbl[i].url = videoTbl[j].url) => i = j

\* C3: processing a listing page a second time, unchanged, returns the same videos
\* list, leaves the Video table as it is and marks nothing as created.
C3_SecondProcessingIsIdempotent ==
    \A l \in Listings :
        LET ms == _fetch_videos_page_and_find_metadata(TreeOf(l, 0))
            r1 == _get_or_create_videos_from_metadata(ms, videoTbl, <<>>)
            r2 == _get_or_create_videos_from_metadata(ms, r1.tbl, <<>>)
        IN r2.videos = r1.videos /\ r2.tbl = r1.tbl /\ r2.created = <<>>

\* crawl() is enriching a page it has processed before: the second step of a chain
\* whose pages all show ListingAC.
C3_Witness ==
    /\ site.mode = "listing_down" /\ pc = "enrich" /\ Len(fetchLog) >= 2 /\ stepBase = 2
    /\ created = <<>>
    /\ videoTbl = <<VideoRow(_fetch_videos_page_and_find_metadata(tree)[1]),
                    VideoRow(_fetch_videos_page_and_find_metadata(tree)[2])>>

\* C4: the videos passed to tumblr.post are exactly the rows created in the steps
\* that have completed, each once, in the order of their creation: the rows created
\* before the current step while crawl() runs or after it raised, all rows once it
\* is done.
C4_CreatedItemsNotifiedOnceInOrder ==
    notified = Iota(IF pc = "done" THEN Len(videoTbl) ELSE stepBase)

\* A step that created rows in two attempts has completed and posted them.
C4_Witness ==
    /\ gaveUp /\ pc = "done" /\ Len(videoTbl) = 3 /\ notified = <<1, 2, 3>>

\* The detail GET of task i of the batch is answered with a 200 or a 404.
C5_Answered(i) ==
    /\ tasks[i].live /\ Running(i)
    /\ Len(tasks') = Len(tasks)
    /\ tasks'[i].res \in {"ok", "skip"}

C5_Step ==
    \A i \in 1..Len(tasks) :
        C5_Answered(i) =>
            /\ pc' = pc /\ attempt' = attempt
            /\ tasks'[i].att = tasks[i].att
            /\ \A k \in 1..Len(tasks) : k # i => tasks'[k] = tasks[k]
            /\ IF tasks'[i].res = "skip"
               THEN tagTbl' = tagTbl /\ vtTbl' = vtTbl
               ELSE \A f \in Range(DetailTags(UrlOf(tasks[i].video))) :
                       LET slug == parameterize(strip(f))
                       IN slug # <<>> =>
                            \E t \in 1..Len(tagTbl') :
                                /\ tagTbl'[t].slug = slug
                                /\ \E r \in 1..Len(vtTbl') :
                                       vtTbl'[r] = [video |-> tasks[i].video, tag |-> t]

\* C5: when the detail GET of a task of the batch is answered, nothing is raised
\* into _download, no sibling is touched and the task issues no further GET; on a
\* 404 no Tag or VideoTag row is written; on a 200 every tag of the page with a
\* non-empty slug has its Tag row and its VideoTag row for the video.
C5_PartialEnrichmentFailure == [][C5_Step]_vars

\* A batch has completed in which one video got a 404 at its first GET and has no
\* tags and another got its tags.
C5_Witness ==
    /\ pc = "enrich" /\ GatherDone(tasks)
    /\ \E i, j \in 1..Len(tasks) :
        /\ tasks[i].live /\ tasks[i].res = "skip" /\ tasks[i].att = 1
        /\ TagsOf(tasks[i].video) = {}
        /\ tasks[j].live /\ tasks[j].res = "ok" /\ TagsOf(tasks[j].video) # {}

\* C6: a detail task runs only while _download awaits the gather it belongs to.
C6_GatherIsAllCompleteBarrier ==
    \A i \in 1..Len(tasks) : Running(i) => (tasks[i].live /\ pc = "enrich")

C7_Halted == status = "404" => pc = "exited"

C7_Step ==
    /\ (status # "404" /\ status' = "404") =>
            /\ attempt' = attempt /\ reqs' = reqs /\ waits' = waits
            /\ videoTbl' = videoTbl /\ tagTbl' = tagTbl /\ vtTbl' = vtTbl
            /\ created' = created /\ notified' = notified /\ fetchLog' = fetchLog
    /\ pc = "exited" => UNCHANGED vars

\* C7: a listing 404 ends crawl() at once: it is not retried, and the answer creates
\* no row, posts no video and issues no GET; after it nothing happens at all.
C7_Listing404HaltsTheCrawl == []C7_Halted /\ [][C7_Step]_vars

\* The listing GET of a later page, with videos stored, was answered 404.
C7_Witness == pc = "exited" /\ url > 1 /\ Len(videoTbl) > 0

\* C8: every attempt of a step issues one listing GET, a sleep lies between two
\* attempts and none follows the last, no step has more than MaxAttempts attempts,
\* and a step fails only after its MaxAttempts-th attempt, after which crawl() has
\* raised and takes no further step.
C8_RetryExhaustion ==
    /\ attempt \in 1..MaxAttempts
    /\ reqs = attempt
    /\ waits = IF pc = "wait" THEN attempt ELSE attempt - 1
    /\ (pc = "wait" => attempt < MaxAttempts)
    /\ (pc = "failed" => attempt = MaxAttempts /\ ~ENABLED Next)

\* The listing GET of a step has failed MaxAttempts times.
C8_Witness == pc = "failed" /\ kind = "transient" /\ site.mode = "listing_down"

\* C9: an attempt that finds no video on the listing page fails and is retried, or
\* fails the step when it was the MaxAttempts-th; crawl() awaits a gather or is done
\* only on a page with videos.
C9_EmptyListingIsRetried ==
    /\ status = "empty" =>
            /\ pc \in {"wait", "failed"}
            /\ (pc = "failed") = (attempt = MaxAttempts)
    /\ pc \in {"enrich", "done"} => _fetch_videos_page_and_find_metadata(tree) # <<>>
    /\ (pc = "failed" /\ kind = "empty") => reqs = MaxAttempts

\* The listing page was empty in each of the MaxAttempts attempts.
C9_Witness == pc = "failed" /\ kind = "empty" /\ status = "empty"

\* C10: no two Tag rows have the same slug and no two VideoTag rows the same
\* (video, tag).
C10_OneTagPerSlugOneLinkPerPair ==
    /\ \A i, j \in 1..Len(tagTbl) : tagTbl[i].slug = tagTbl[j].slug => i = j
    /\ \A i, j \in 1..Len(vtTbl) : vtTbl[i] = vtTbl[j] => i = j

\* Two tasks of one batch have saved, for videos of different urls, raw tags of
\* different text and the same slug: both videos are linked to the one Tag row.
C10_Witness ==
    \E i, j \in 1..Len(tasks) :
        /\ tasks[i].live /\ tasks[j].live
        /\ tasks[i].res = "ok" /\ tasks[j].res = "ok"
        /\ UrlOf(tasks[i].video) # UrlOf(tasks[j].video)
        /\ \E t \in TagsOf(tasks[i].video) \cap TagsOf(tasks[j].video) :
               tagTbl[t].slug = <<"a", "-", "b">>

\* C11: a raw tag whose slug is empty writes no Tag row and no VideoTag row, and
\* the tags found after it are saved: no Tag row has an empty slug, saving such a
\* tag leaves both tables as they are, and a task that has saved a detail page
\* has linked its video to the Tag of every non-empty slug of the page.
C11_EmptySlugIsSkipped ==
    /\ \A t \in 1..Len(tagTbl) : tagTbl[t].slug # <<>>
    /\ \A v \in 1..Len(videoTbl) :
           \A f \in Range(DetailTags(UrlOf(v))) :
               parameterize(strip(f)) = <<>> =>
                   SaveTag([tags |-> tagTbl, vts |-> vtTbl], v, f)
                       = [tags |-> tagTbl, vts |-> vtTbl]
    /\ \A i \in 1..Len(tasks) :
           (tasks[i].live /\ tasks[i].res = "ok") =>
               \A f \in Range(DetailTags(UrlOf(tasks[i].video))) :
                   parameterize(strip(f)) # <<>> =>
                       \E t \in TagsOf(tasks[i].video) :
                           tagTbl[t].slug = parameterize(strip(f))

\* A task has saved a detail page whose first raw tag has an empty slug: its video
\* has the tags found after it.
C11_Witness ==
    \E i \in 1..Len(tasks) :
        /\ tasks[i].live /\ tasks[i].res = "ok"
        /\ parameterize(strip(Head(DetailTags(UrlOf(tasks[i].video))))) = <<>>
        /\ Cardinality(TagsOf(tasks[i].video)) = 1
        /\ Len(tagTbl) >= 1

\* C12: when a listing page is processed by a crawler without a duration converter,
\* the step fails at once: its first attempt is its last.
C12_MissingConverterIsNotRetried ==
    status = "noconv" => (pc = "failed" /\ attempt = 1 /\ reqs = 1)

\* C13: a detail task of the gather _download awaits is for a video created in
\* the current step.
C13_EnrichesOnlyNewItems ==
    \A i \in 1..Len(tasks) : tasks[i].live => tasks[i].video > stepBase

\* C14: in one step, the detail page of one video is requested at most MaxAttempts
\* times.
C14_DetailRetryBoundPerItemPerStep ==
    \A v \in 1..Len(gets) : gets[v] <= MaxAttempts

\* C15: when crawl() posts the videos of its first step, no detail task is running
\* (every task that exists then was started in an attempt of that step).
C15_NotifyAfterEnrichment ==
    [][(notified' # notified /\ stepBase = 0) => \A i \in 1..Len(tasks) : ~Running(i)]_vars

\* C16: when the first listing GET of a step is in flight, no detail task is
\* running (every task that exists then was started in an earlier step).
C16_PaginationIsSequential ==
    (pc = "fetch" /\ attempt = 1) => \A i \in 1..Len(tasks) : ~Running(i)

\* C17: no two running detail tasks are for the same video.
C17_OneRunningTaskPerItem ==
    \A i, j \in 1..Len(tasks) :
        (Running(i) /\ Running(j) /\ tasks[i].video = tasks[j].video) => i = j

\* C18: while _download awaits the gather of a page, the tuples of the page are as
\* many as the shortest of its four arrays, the i-th tuple is made of the i-th
\* entries (the duration converted), the gather has one task per tuple, for the
\* Video of that tuple, and a page whose arrays differ in length fails no attempt.
C18_ZipShortest ==
    /\ pc = "enrich" =>
           LET ms == _fetch_videos_page_and_find_metadata(tree)
               n  == Min({Len(tree.titles), Len(tree.urls), Len(tree.thumbs), Len(tree.durs)})
               ts == Live(tasks)
           IN /\ Len(ms) = n
              /\ Len(ts) = n
              /\ \A i \in 1..n :
                     /\ ms[i] = <<tree.titles[i], tree.urls[i], tree.thumbs[i],
                                  Convert(tree.conv, tree.durs[i])>>
                     /\ videoTbl[ts[i].video] = VideoRow(ms[i])
    /\ site.mode = "ragged" => pc \notin {"wait", "failed"} /\ attempt = 1

\* _download awaits the gather of a page with two titles and one duration: one task.
C18_Witness ==
    /\ pc = "enrich" /\ site.mode = "ragged"
    /\ Len(tree.titles) = 2 /\ Len(tree.durs) = 1 /\ Len(Live(tasks)) = 1

C19_Unposted ==
    pc \in {"failed", "exited"} =>
        \A k \in 1..Len(created) :
            /\ created[k] \in 1..Len(videoTbl)
            /\ created[k] \notin Range(notified)
            /\ ~get_or_create(videoTbl, videoTbl[created[k]]).created

C19_Step == pc \in {"failed", "exited"} => (notified' = notified /\ videoTbl' = videoTbl)

\* C19: once a step has failed (its retries exhausted, or a listing 404), the rows
\* its attempts created are in the Video table and were not posted, nothing is
\* posted afterwards, and a get_or_create with their fields finds them.
C19_FailedStepItemsAreNeverNotified == []C19_Unposted /\ [][C19_Step]_vars

\* A step has exhausted its retries after one of its attempts created rows.
C19_Witness == pc = "failed" /\ Len(created) >= 2 /\ attempt = MaxAttempts

\* C20: crawl() is done only on a page without a prev-page link, so never on a chain
\* that links back into itself; there, while every fetch has succeeded, it is
\* awaiting a listing page or a gather, on a page of the chain, and once it has
\* fetched more listing pages than the chain has, it creates no Video row.
C20_CycleNeverReachesDone ==
    /\ pc = "done" => PrevOf(site, url) = 0
    /\ site.back # 0 => pc # "done"
    /\ (clean /\ site.back # 0) =>
           /\ pc \in {"fetch", "enrich"}
           /\ url \in 1..site.n
           /\ Len(fetchLog) > site.n =>
                  (url \in site.back..site.n /\ created = <<>> /\ Len(videoTbl) = stepBase)

\* On a chain whose last page links back, every fetch having succeeded, crawl() is
\* on the page linked back to for the second time and has created nothing there.
C20_Witness ==
    /\ clean /\ site.back # 0 /\ site.n = MaxPages
    /\ pc = "enrich" /\ Len(fetchLog) = site.n + 1 /\ fetchLog[site.n + 1] = site.back
    /\ url = site.back /\ created = <<>>

====
